---- MODULE Spec2Model ----
(***************************************************************************)
(* Model of the item pipelines of pidgeon (src/pidgeon/pipelines.py):      *)
(* ValidationPipeline, DuplicatesPipeline and DataEnrichmentPipeline, and  *)
(* of the scoring functions of ApartmentAnalyzer                           *)
(* (src/pidgeon/analysis/analyzer.py).                                     *)
(*                                                                         *)
(* Python values are tagged records:                                       *)
(*   [t |-> "none"]               None, and a field that was never set     *)
(*                                (Item.get returns None for both)         *)
(*   [t |-> "int",  i |-> n]      an int                                   *)
(*   [t |-> "str",  s |-> chars]  a str, as the sequence of its characters *)
(*   [t |-> "bool", b |-> x]      a bool                                   *)
(* The characters that occur in the modelled inputs are the digits, the    *)
(* signs, ".", " ", "," and letters that take no part in any numeric       *)
(* literal (so "e", "_", "inf" and "nan" do not occur).                    *)
(***************************************************************************)
EXTENDS Integers, Sequences, FiniteSets, TLC

VARIABLES
    seen_urls,   \* DuplicatesPipeline.seen_urls
    now,         \* the wall clock read by datetime.now()
    calls,       \* history: one entry per item handed to the component under test
    result,      \* the result of the last ValidationPipeline.process_item call
    pc,          \* per worker: position inside DuplicatesPipeline.process_item
    witem,       \* per worker: the argument item
    wurl,        \* per worker: the local variable url
    analyzer,    \* the ApartmentAnalyzer: its weights and preferences
    scored,      \* history: one entry per call of a scoring function
    csv,         \* the CSVExportPipeline: files, writers, the file objects it
                 \* opened, and the history of the calls made on it
    analysis     \* the last analyze_apartments / export_results call

vars == <<seen_urls, now, calls, result, pc, witem, wurl, analyzer, scored, csv, analysis>>

----------------------------------------------------------------------------
(* Bounds of the model *)

MaxCalls == 3

NWorkers == 2

\* The number of calls made on a CSVExportPipeline.
MaxCsvCalls == 4

\* The number of rows of the table handed to analyze_apartments.
MaxRows == 3

----------------------------------------------------------------------------
(* Python values *)

None == [t |-> "none"]

IntV(n) == [t |-> "int", i |-> n]

StrV(cs) == [t |-> "str", s |-> cs]

BoolV(x) == [t |-> "bool", b |-> x]

Digits == {"0", "1", "2", "3", "4", "5", "6", "7", "8", "9"}

DigitVal(c) ==
    CASE c = "0" -> 0 [] c = "1" -> 1 [] c = "2" -> 2 [] c = "3" -> 3
      [] c = "4" -> 4 [] c = "5" -> 5 [] c = "6" -> 6 [] c = "7" -> 7
      [] c = "8" -> 8 [] c = "9" -> 9

DigitChar(d) ==
    CASE d = 0 -> "0" [] d = 1 -> "1" [] d = 2 -> "2" [] d = 3 -> "3"
      [] d = 4 -> "4" [] d = 5 -> "5" [] d = 6 -> "6" [] d = 7 -> "7"
      [] d = 8 -> "8" [] d = 9 -> "9"

\* Python truthiness: bool(v), and the test made by `if v:` / `not v`.
Truthy(v) ==
    CASE v.t = "none" -> FALSE
      [] v.t = "int"  -> v.i # 0
      [] v.t = "str"  -> v.s # <<>>
      [] v.t = "bool" -> v.b

RECURSIVE NatToStr(_)
NatToStr(n) ==
    IF n < 10 THEN <<DigitChar(n)>>
    ELSE NatToStr(n \div 10) \o <<DigitChar(n % 10)>>

\* str(v), as a sequence of characters.
PyStr(v) ==
    CASE v.t = "none" -> <<"N", "o", "n", "e">>
      [] v.t = "int"  -> IF v.i < 0 THEN <<"-">> \o NatToStr(-v.i) ELSE NatToStr(v.i)
      [] v.t = "str"  -> v.s
      [] v.t = "bool" -> IF v.b THEN <<"T", "r", "u", "e">> ELSE <<"F", "a", "l", "s", "e">>

\* s.replace(c, '') for a single character c.
Replace(s, c) == SelectSeq(s, LAMBDA x : x # c)

RECURSIVE LStrip(_)
LStrip(s) == IF s # <<>> /\ Head(s) = " " THEN LStrip(Tail(s)) ELSE s

RECURSIVE RStrip(_)
RStrip(s) ==
    IF s # <<>> /\ s[Len(s)] = " " THEN RStrip(SubSeq(s, 1, Len(s) - 1)) ELSE s

\* The surrounding whitespace int() and float() ignore.
Strip(s) == RStrip(LStrip(s))

IsDigits(s) == s # <<>> /\ \A k \in 1..Len(s) : s[k] \in Digits

RECURSIVE DigitsVal(_)
DigitsVal(s) ==
    IF s = <<>> THEN 0
    ELSE 10 * DigitsVal(SubSeq(s, 1, Len(s) - 1)) + DigitVal(s[Len(s)])

ParseFail == [ok |-> FALSE, num |-> 0, den |-> 1]

\* int(s) for a str s: surrounding whitespace, an optional sign, decimal digits.
\* ok = FALSE stands for ValueError.
IntOfStr(s) ==
    LET u    == Strip(s)
        neg  == u # <<>> /\ Head(u) = "-"
        body == IF u # <<>> /\ Head(u) \in {"-", "+"} THEN Tail(u) ELSE u
    IN  IF IsDigits(body)
        THEN [ok |-> TRUE, num |-> IF neg THEN -DigitsVal(body) ELSE DigitsVal(body), den |-> 1]
        ELSE ParseFail

\* int(v) for a value v. ok = FALSE stands for ValueError or TypeError.
PyInt(v) ==
    CASE v.t = "none" -> ParseFail
      [] v.t = "int"  -> [ok |-> TRUE, num |-> v.i, den |-> 1]
      [] v.t = "str"  -> IntOfStr(v.s)
      [] v.t = "bool" -> [ok |-> TRUE, num |-> IF v.b THEN 1 ELSE 0, den |-> 1]

RECURSIVE Pow10(_)
Pow10(k) == IF k = 0 THEN 1 ELSE 10 * Pow10(k - 1)

IndexOfDot(s) ==
    IF \E k \in 1..Len(s) : s[k] = "."
    THEN CHOOSE k \in 1..Len(s) : s[k] = "." /\ \A j \in 1..(k - 1) : s[j] # "."
    ELSE 0

\* float(s) for a str s, as the exact fraction num/den: surrounding whitespace,
\* an optional sign, digits with an optional decimal point.
FloatOfStr(s) ==
    LET u    == Strip(s)
        neg  == u # <<>> /\ Head(u) = "-"
        body == IF u # <<>> /\ Head(u) \in {"-", "+"} THEN Tail(u) ELSE u
        d    == IndexOfDot(body)
        ip   == IF d = 0 THEN body ELSE SubSeq(body, 1, d - 1)
        fp   == IF d = 0 THEN <<>> ELSE SubSeq(body, d + 1, Len(body))
        wellFormed ==
            /\ ip \o fp # <<>>
            /\ \A k \in 1..Len(ip) : ip[k] \in Digits
            /\ \A k \in 1..Len(fp) : fp[k] \in Digits
        mag  == DigitsVal(ip \o fp)
    IN  IF wellFormed
        THEN [ok |-> TRUE, num |-> IF neg THEN -mag ELSE mag, den |-> Pow10(Len(fp))]
        ELSE ParseFail

\* float(v) for a value v. ok = FALSE stands for ValueError or TypeError.
PyFloat(v) ==
    CASE v.t = "none" -> ParseFail
      [] v.t = "int"  -> [ok |-> TRUE, num |-> v.i, den |-> 1]
      [] v.t = "str"  -> FloatOfStr(v.s)
      [] v.t = "bool" -> [ok |-> TRUE, num |-> IF v.b THEN 1 ELSE 0, den |-> 1]

----------------------------------------------------------------------------
(* Items *)

Fields ==
    {"url", "source", "address", "price", "fee", "rooms", "year_built",
     "has_elevator", "has_balcony", "scraped_at"}

\* An ApartmentItem with no field set.
EmptyItem == [f \in Fields |-> None]

\* item.get(field)
Get(item, field) == item[field]

----------------------------------------------------------------------------
(* ValidationPipeline *)

required_fields == <<"url", "source", "address">>

\* datetime.now().year
CurrentYear == 2026

Returned(item, warnings) ==
    [outcome |-> "item", item |-> item, field |-> "", raw |-> None, warnings |-> warnings]

DropItem(item, field, warnings) ==
    [outcome |-> "DropItem", item |-> item, field |-> field, raw |-> Get(item, field),
     warnings |-> warnings]

\* The required fields that fail `if not item.get(field)`, in the order tested.
MissingRequired(item) ==
    SelectSeq(required_fields, LAMBDA f : ~Truthy(Get(item, f)))

\* int(str(v).replace(' ', '').replace(',', ''))
AmountOf(v) == IntOfStr(Replace(Replace(PyStr(v), " "), ","))

\* Lines 32-39: "drop", "warn" or "ok".
CheckPrice(item) ==
    IF ~Truthy(Get(item, "price")) THEN "ok"
    ELSE LET p == AmountOf(Get(item, "price"))
         IN  IF ~p.ok THEN "warn" ELSE IF p.num <= 0 THEN "drop" ELSE "ok"

\* Lines 42-48: "drop", "warn" or "ok".
CheckFee(item) ==
    IF ~Truthy(Get(item, "fee")) THEN "ok"
    ELSE LET p == AmountOf(Get(item, "fee"))
         IN  IF ~p.ok THEN "warn" ELSE IF p.num < 0 THEN "drop" ELSE "ok"

\* Lines 51-57: "warn" or "ok".
CheckRooms(item) ==
    IF ~Truthy(Get(item, "rooms")) THEN "ok"
    ELSE LET r == PyFloat(Get(item, "rooms"))
         IN  IF ~r.ok THEN "warn"
             ELSE IF r.num <= 0 \/ r.num > 20 * r.den THEN "warn" ELSE "ok"

\* Lines 60-67: "warn" or "ok".
CheckYear(item) ==
    IF ~Truthy(Get(item, "year_built")) THEN "ok"
    ELSE LET y == PyInt(Get(item, "year_built"))
         IN  IF ~y.ok THEN "warn"
             ELSE IF y.num < 1800 \/ y.num > CurrentYear THEN "warn" ELSE "ok"

Warn(check, field) == IF check = "warn" THEN {field} ELSE {}

\* A ValidationPipeline that drops an item for an unusual room count or year.
ValidationPipeline_process_item_DropsUnusual(item) ==
    LET missing == MissingRequired(item)
    IN  IF missing # <<>> THEN DropItem(item, Head(missing), {})
        ELSE IF CheckPrice(item) = "drop" THEN DropItem(item, "price", {})
        ELSE IF CheckFee(item) = "drop" THEN DropItem(item, "fee", {})
        ELSE IF CheckRooms(item) = "warn" THEN DropItem(item, "rooms", {})
        ELSE IF CheckYear(item) = "warn" THEN DropItem(item, "year_built", {})
        ELSE Returned(item, {})

\* ValidationPipeline.process_item: the item it returns, or the DropItem it
\* raises, with the fields it logged a warning about before that.
ValidationPipeline_process_item(item) ==
    LET missing == MissingRequired(item)
        wp == Warn(CheckPrice(item), "price")
        wf == wp \cup Warn(CheckFee(item), "fee")
        wr == wf \cup Warn(CheckRooms(item), "rooms")
        wy == wr \cup Warn(CheckYear(item), "year_built")
    IN  IF missing # <<>> THEN DropItem(item, Head(missing), {})
        ELSE IF CheckPrice(item) = "drop" THEN DropItem(item, "price", {})
        ELSE IF CheckFee(item) = "drop" THEN DropItem(item, "fee", wp)
        ELSE Returned(item, wy)

----------------------------------------------------------------------------
(* DuplicatesPipeline *)

\* A DuplicatesPipeline that never records the url of the item it returns.
DuplicatesPipeline_process_item_NoAdd(seen, item) ==
    LET url == Get(item, "url")
    IN  IF url \in seen
        THEN [outcome |-> "DropItem", item |-> item, seen |-> seen]
        ELSE [outcome |-> "item", item |-> item, seen |-> seen]

\* A DuplicatesPipeline that remembers the last url only.
DuplicatesPipeline_process_item_LastOnly(seen, item) ==
    LET url == Get(item, "url")
    IN  IF url \in seen
        THEN [outcome |-> "DropItem", item |-> item, seen |-> seen]
        ELSE [outcome |-> "item", item |-> item, seen |-> {url}]

\* A DuplicatesPipeline that compares whole items instead of urls.
DuplicatesPipeline_process_item_WholeItem(seen, item) ==
    IF item \in seen
    THEN [outcome |-> "DropItem", item |-> item, seen |-> seen]
    ELSE [outcome |-> "item", item |-> item, seen |-> seen \cup {item}]

\* As process_item, but a dropped item's url is forgotten.
DuplicatesPipeline_process_item_ForgetsOnDrop(seen, item) ==
    LET url == Get(item, "url")
    IN  IF url \in seen
        THEN [outcome |-> "DropItem", item |-> item, seen |-> seen \ {url}]
        ELSE [outcome |-> "item", item |-> item, seen |-> seen \cup {url}]

\* DuplicatesPipeline.process_item on the set seen: the item it returns, or the
\* DropItem it raises, and the set it leaves behind.
DuplicatesPipeline_process_item(seen, item) ==
    LET url == Get(item, "url")
    IN  IF url \in seen
        THEN [outcome |-> "DropItem", item |-> item, seen |-> seen]
        ELSE [outcome |-> "item", item |-> item, seen |-> seen \cup {url}]

----------------------------------------------------------------------------
(* DataEnrichmentPipeline *)

\* datetime.now().isoformat() at clock reading t: a non-empty str fixed by t.
IsoFormat(t) == StrV(<<"T">> \o NatToStr(t))

\* Lines 108-109 for one field.
StandardizeBool(item, f) ==
    IF Get(item, f) # None THEN BoolV(Truthy(Get(item, f))) ELSE Get(item, f)

\* As process_item, but scraped_at is set on every call.
DataEnrichmentPipeline_process_item_AlwaysStamps(item, t) ==
    [item EXCEPT !["has_elevator"] = StandardizeBool(item, "has_elevator"),
                 !["has_balcony"]  = StandardizeBool(item, "has_balcony"),
                 !["scraped_at"]   = IsoFormat(t)]

\* As process_item, but rooms is standardized like the boolean fields.
DataEnrichmentPipeline_process_item_AlsoRooms(item, t) ==
    LET item1 == [item EXCEPT !["has_elevator"] = StandardizeBool(item, "has_elevator"),
                              !["has_balcony"]  = StandardizeBool(item, "has_balcony"),
                              !["rooms"]        = StandardizeBool(item, "rooms")]
    IN  IF ~Truthy(Get(item1, "scraped_at"))
        THEN [item1 EXCEPT !["scraped_at"] = IsoFormat(t)]
        ELSE item1

\* DataEnrichmentPipeline.process_item at clock reading t: the item it returns.
DataEnrichmentPipeline_process_item(item, t) ==
    LET item1 == [item EXCEPT !["has_elevator"] = StandardizeBool(item, "has_elevator"),
                              !["has_balcony"]  = StandardizeBool(item, "has_balcony")]
    IN  IF ~Truthy(Get(item1, "scraped_at"))
        THEN [item1 EXCEPT !["scraped_at"] = IsoFormat(t)]
        ELSE item1

----------------------------------------------------------------------------
(* CSVExportPipeline. A file object is an entry of disk: the spider it was   *)
(* opened for, whether it is closed, and the rows written to it; files and   *)
(* writers map a spider to the index of its file object, 0 when the spider   *)
(* is not a key.                                                             *)

Spiders == {"hemnet", "booli"}

Yes == <<"Y", "e", "s">>

No == <<"N", "o">>

\* Lines 167-172: the text written for one value.
csv_cell(value) ==
    IF value = None THEN <<>>
    ELSE IF value.t = "bool" THEN (IF value.b THEN Yes ELSE No)
    ELSE PyStr(value)

\* Lines 165-172: item_dict; DictWriter writes '' for a field that is not set.
item_dict(item) == [f \in Fields |-> csv_cell(Get(item, f))]

\* CSVExportPipeline()
CSVExportPipeline ==
    [files |-> [s \in Spiders |-> 0], writers |-> [s \in Spiders |-> 0],
     disk |-> <<>>, log |-> <<>>]

\* One entry of the history of calls: the call, what it returned, and the
\* file objects before and after it.
CsvCall(op, spider, item, out, before, after) ==
    [op |-> op, spider |-> spider, item |-> item, out |-> out,
     before |-> before, after |-> after]

\* open_spider(spider): a new file object, with the header row, bound to the
\* spider in files and writers; an entry the spider already had is replaced,
\* and the file object it named is left as it is.
open_spider(self, spider) ==
    LET file == [spider |-> spider, closed |-> FALSE, rows |-> <<"header">>]
        id   == Len(self.disk) + 1
        disk == Append(self.disk, file)
    IN  [self EXCEPT !.disk = disk,
                     !.files[spider] = id,
                     !.writers[spider] = id,
                     !.log = Append(@, CsvCall("open_spider", spider, EmptyItem, None,
                                               self.disk, disk))]

\* close_spider(spider)
close_spider(self, spider) ==
    LET disk == IF self.files[spider] # 0
                THEN [self.disk EXCEPT ![self.files[spider]].closed = TRUE]
                ELSE self.disk
    IN  [self EXCEPT !.disk = disk,
                     !.files[spider] = 0,
                     !.writers[spider] = 0,
                     !.log = Append(@, CsvCall("close_spider", spider, EmptyItem, None,
                                               self.disk, disk))]

\* process_item(item, spider): the pipeline it leaves; the item is returned.
CSVExportPipeline_process_item(self, item, spider) ==
    LET disk == IF self.writers[spider] # 0
                THEN [self.disk EXCEPT ![self.writers[spider]].rows =
                                            Append(@, item_dict(item))]
                ELSE self.disk
    IN  [self EXCEPT !.disk = disk,
                     !.log = Append(@, CsvCall("process_item", spider, item, item,
                                               self.disk, disk))]

\* The file objects that neither files nor writers refers to any more.
Unreferenced(self) ==
    {id \in 1..Len(self.disk) :
        \A s \in Spiders : self.files[s] # id /\ self.writers[s] # id}

\* The interpreter finalizes a file object nothing refers to, which closes it:
\* CPython as soon as the last reference goes, other interpreters whenever
\* their collector runs, if it does before the process ends.
finalize(self, id) == [self EXCEPT !.disk[id].closed = TRUE]

----------------------------------------------------------------------------
(* items.py: parse_boolean, the ItemLoader's input processor for the boolean *)
(* fields.                                                                   *)

UpperCase == <<"A", "B", "C", "D", "E", "F", "G", "H", "I", "J", "K", "L", "M",
               "N", "O", "P", "Q", "R", "S", "T", "U", "V", "W", "X", "Y", "Z">>

LowerCase == <<"a", "b", "c", "d", "e", "f", "g", "h", "i", "j", "k", "l", "m",
               "n", "o", "p", "q", "r", "s", "t", "u", "v", "w", "x", "y", "z">>

\* str.lower()
Lower(s) ==
    [k \in 1..Len(s) |->
        IF \E n \in 1..Len(UpperCase) : UpperCase[n] = s[k]
        THEN LowerCase[CHOOSE n \in 1..Len(UpperCase) : UpperCase[n] = s[k]]
        ELSE s[k]]

TruthyTokens ==
    {<<"y", "e", "s">>, <<"j", "a">>, <<"t", "r", "u", "e">>, <<"1">>,
     <<"f", "i", "n", "n", "s">>, <<"h", "i", "s", "s">>}

\* parse_boolean(value)
parse_boolean(value) ==
    IF Truthy(value) THEN Strip(Lower(PyStr(value))) \in TruthyTokens ELSE FALSE

----------------------------------------------------------------------------
(* analysis/analyzer.py: numbers.                                            *)
(*                                                                           *)
(* The analyzer computes in floats. A float is modelled as                   *)
(*   [k |-> "fin", lo |-> q, hi |-> r]  a real number x with q <= x <= r,    *)
(*                                      q and r rationals; q = r for every   *)
(*                                      value but those that come out of     *)
(*                                      np.exp, which is enclosed            *)
(*   [k |-> "inf"], [k |-> "ninf"]      +inf and -inf                        *)
(*   [k |-> "nan"]                      NaN; also the None that              *)
(*                                      apartment.get gives for a column     *)
(*                                      that is not there (pd.isna is true   *)
(*                                      of both)                             *)
(*   [k |-> "raise"]                    no value: ZeroDivisionError          *)
(* Rationals are records [n, d] in lowest terms with d > 0. Rounding of the  *)
(* floating-point operations is not modelled.                                *)

Abs(n) == IF n < 0 THEN -n ELSE n

RECURSIVE GCD(_, _)
GCD(a, b) == IF b = 0 THEN a ELSE GCD(b, a % b)

Rat(n, d) ==
    LET g == GCD(Abs(n), Abs(d))
        s == IF d < 0 THEN -1 ELSE 1
    IN  [n |-> (s * n) \div g, d |-> (s * d) \div g]

RInt(n) == [n |-> n, d |-> 1]

RAdd(a, b) == Rat(a.n * b.d + b.n * a.d, a.d * b.d)

RSub(a, b) == Rat(a.n * b.d - b.n * a.d, a.d * b.d)

RMul(a, b) == Rat(a.n * b.n, a.d * b.d)

RDiv(a, b) == Rat(a.n * b.d, a.d * b.n)

RLt(a, b) == a.n * b.d < b.n * a.d

RLe(a, b) == a.n * b.d <= b.n * a.d

\* The least integer >= a.
Ceil(a) == -((-a.n) \div a.d)

RECURSIVE Pow3(_)
Pow3(k) == IF k = 0 THEN 1 ELSE 3 * Pow3(k - 1)

Fin(lo, hi) == [k |-> "fin", lo |-> lo, hi |-> hi]

Pt(q) == Fin(q, q)

PInf == [k |-> "inf", lo |-> RInt(0), hi |-> RInt(0)]

NInf == [k |-> "ninf", lo |-> RInt(0), hi |-> RInt(0)]

NaN == [k |-> "nan", lo |-> RInt(0), hi |-> RInt(0)]

ZeroDivisionError == [k |-> "raise", lo |-> RInt(0), hi |-> RInt(0)]

\* pd.isna(x)
isna(x) == x.k = "nan"

\* a / b for two finite numbers a and b given exactly. Division by zero raises
\* ZeroDivisionError when the operands are Python floats or ints, and gives
\* inf, -inf or nan (with a warning) when the dividend is a numpy float64.
FDiv(a, b, np) ==
    IF b.n # 0 THEN Pt(RDiv(a, b))
    ELSE IF ~np THEN ZeroDivisionError
    ELSE IF a.n > 0 THEN PInf
    ELSE IF a.n < 0 THEN NInf
    ELSE NaN

\* -x
FNeg(x) ==
    CASE x.k = "fin"  -> Fin(RSub(RInt(0), x.hi), RSub(RInt(0), x.lo))
      [] x.k = "inf"  -> NInf
      [] x.k = "ninf" -> PInf
      [] OTHER        -> x

\* c * x for a finite c given exactly.
FMul(c, x) ==
    CASE x.k = "fin"  -> IF c.n >= 0 THEN Fin(RMul(c, x.lo), RMul(c, x.hi))
                         ELSE Fin(RMul(c, x.hi), RMul(c, x.lo))
      [] x.k = "inf"  -> IF c.n > 0 THEN PInf ELSE IF c.n < 0 THEN NInf ELSE NaN
      [] x.k = "ninf" -> IF c.n > 0 THEN NInf ELSE IF c.n < 0 THEN PInf ELSE NaN
      [] OTHER        -> x

\* x + y
FAdd(x, y) ==
    CASE x.k = "raise" -> x
      [] y.k = "raise" -> y
      [] x.k = "nan"   -> x
      [] y.k = "nan"   -> y
      [] x.k = "fin" /\ y.k = "fin" -> Fin(RAdd(x.lo, y.lo), RAdd(x.hi, y.hi))
      [] x.k = "fin"   -> y
      [] y.k = "fin"   -> x
      [] OTHER         -> IF x.k = y.k THEN x ELSE NaN

\* c - x for a finite c given exactly.
FSubFrom(c, x) == FAdd(Pt(c), FNeg(x))

\* Python's min(c, x): x when x < c, else c. A comparison with NaN is false.
PyMin(c, x) ==
    CASE x.k = "fin"   -> Fin(IF RLt(x.lo, c) THEN x.lo ELSE c, IF RLt(x.hi, c) THEN x.hi ELSE c)
      [] x.k = "ninf"  -> x
      [] x.k = "raise" -> x
      [] OTHER         -> Pt(c)

\* Python's max(c, x): x when x > c, else c.
PyMax(c, x) ==
    CASE x.k = "fin"   -> Fin(IF RLt(c, x.lo) THEN x.lo ELSE c, IF RLt(c, x.hi) THEN x.hi ELSE c)
      [] x.k = "inf"   -> x
      [] x.k = "raise" -> x
      [] OTHER         -> Pt(c)

\* Rational bounds of e^q: 1 + q <= e^q <= 3^ceil(q) for q > 0, and
\* 3^-ceil(-q) <= e^q <= 1 / (1 - q) for q < 0 (the lower bound is 0 below
\* q = -6, to keep the denominators small).
ExpLo(q) ==
    IF q.n = 0 THEN RInt(1)
    ELSE IF q.n > 0 THEN RAdd(RInt(1), q)
    ELSE IF Ceil(RSub(RInt(0), q)) <= 6 THEN Rat(1, Pow3(Ceil(RSub(RInt(0), q))))
    ELSE RInt(0)

ExpHi(q) ==
    IF q.n = 0 THEN RInt(1)
    ELSE IF q.n > 0 THEN RInt(Pow3(Ceil(q)))
    ELSE RDiv(RInt(1), RSub(RInt(1), q))

\* np.exp(x)
np_exp(x) ==
    CASE x.k = "fin"  -> Fin(ExpLo(x.lo), ExpHi(x.hi))
      [] x.k = "inf"  -> x
      [] x.k = "ninf" -> Pt(RInt(0))
      [] OTHER        -> x

----------------------------------------------------------------------------
(* analysis/analyzer.py: ScoringWeights, ScoringPreferences and the scoring  *)
(* functions of ApartmentAnalyzer. np tells whether the numbers of the row   *)
(* are numpy float64 (a frame with numeric columns only) or Python floats    *)
(* (a row of a frame that also has str columns, or a direct call).           *)

\* ScoringWeights()
ScoringWeights ==
    [price_weight |-> Rat(30, 100), fee_weight |-> Rat(20, 100),
     price_per_m2_weight |-> Rat(25, 100), rooms_weight |-> Rat(10, 100),
     year_built_weight |-> Rat(10, 100), elevator_weight |-> Rat(3, 100),
     balcony_weight |-> Rat(2, 100), floor_weight |-> Rat(0, 100)]

\* ScoringPreferences()
ScoringPreferences ==
    [max_preferred_price |-> 4000000, min_acceptable_price |-> 1000000,
     max_preferred_fee |-> 5000, min_acceptable_fee |-> 2000,
     max_preferred_price_per_m2 |-> 70000, min_acceptable_price_per_m2 |-> 30000,
     min_preferred_rooms |-> Rat(2, 1), max_preferred_rooms |-> Rat(4, 1),
     min_preferred_year |-> 1960, preferred_year_threshold |-> 1990,
     preferred_min_floor |-> IntV(2), preferred_max_floor |-> IntV(6),
     avoid_ground_floor |-> TRUE]

\* ApartmentAnalyzer(weights, preferences)
ApartmentAnalyzer(weights, preferences) ==
    [weights |-> weights, preferences |-> preferences]

\* As declining_score, without the clamp of the linear part.
declining_score_NoClamp(value, max_preferred, min_acceptable, tail, np) ==
    IF RLe(value.lo, RInt(max_preferred))
    THEN FSubFrom(RInt(1), FDiv(RSub(value.lo, RInt(min_acceptable)),
                                RInt(max_preferred - min_acceptable), np))
    ELSE PyMax(RInt(0), FMul(tail, np_exp(FNeg(FDiv(RSub(value.lo, RInt(max_preferred)),
                                                     RInt(max_preferred), np)))))

\* As declining_score, with the linear part measured from zero.
declining_score_FromZero(value, max_preferred, min_acceptable, tail, np) ==
    IF RLe(value.lo, RInt(max_preferred))
    THEN PyMax(RInt(0), PyMin(RInt(1),
            FSubFrom(RInt(1), FDiv(value.lo, RInt(max_preferred), np))))
    ELSE PyMax(RInt(0), FMul(tail, np_exp(FNeg(FDiv(RSub(value.lo, RInt(max_preferred)),
                                                     RInt(max_preferred), np)))))

\* The body shared by score_price, score_fee and score_price_per_m2 for a
\* value that is not missing: linear up to max_preferred, then
\* tail * exp(-decay_factor).
declining_score(value, max_preferred, min_acceptable, tail, np) ==
    IF RLe(value.lo, RInt(max_preferred))
    THEN PyMax(RInt(0), PyMin(RInt(1),
            FSubFrom(RInt(1), FDiv(RSub(value.lo, RInt(min_acceptable)),
                                   RInt(max_preferred - min_acceptable), np))))
    ELSE PyMax(RInt(0), FMul(tail, np_exp(FNeg(FDiv(RSub(value.lo, RInt(max_preferred)),
                                                     RInt(max_preferred), np)))))

\* As score_price, with the neutral score for a missing price.
score_price_MissingNeutral(preferences, price, np) ==
    IF isna(price) THEN Pt(Rat(5, 10))
    ELSE declining_score(price, preferences.max_preferred_price,
                         preferences.min_acceptable_price, Rat(3, 10), np)

score_price(preferences, price, np) ==
    IF isna(price) THEN Pt(RInt(0))
    ELSE declining_score(price, preferences.max_preferred_price,
                         preferences.min_acceptable_price, Rat(3, 10), np)

score_fee(preferences, fee, np) ==
    IF isna(fee) THEN Pt(Rat(5, 10))
    ELSE declining_score(fee, preferences.max_preferred_fee,
                         preferences.min_acceptable_fee, Rat(3, 10), np)

score_price_per_m2(preferences, price_per_m2, np) ==
    IF isna(price_per_m2) THEN Pt(Rat(5, 10))
    ELSE declining_score(price_per_m2, preferences.max_preferred_price_per_m2,
                         preferences.min_acceptable_price_per_m2, Rat(2, 10), np)

\* As score_rooms, without the floor of 0.1 above the band.
score_rooms_NoFloor(preferences, rooms, np) ==
    IF isna(rooms) THEN Pt(Rat(5, 10))
    ELSE IF RLe(preferences.min_preferred_rooms, rooms.lo)
            /\ RLe(rooms.lo, preferences.max_preferred_rooms)
    THEN Pt(RInt(1))
    ELSE IF RLt(rooms.lo, preferences.min_preferred_rooms)
    THEN PyMax(RInt(0), FDiv(rooms.lo, preferences.min_preferred_rooms, np))
    ELSE PyMax(RInt(0), FSubFrom(RInt(1),
                  FMul(Rat(1, 10), Pt(RSub(rooms.lo, preferences.max_preferred_rooms)))))

score_rooms(preferences, rooms, np) ==
    IF isna(rooms) THEN Pt(Rat(5, 10))
    ELSE IF RLe(preferences.min_preferred_rooms, rooms.lo)
            /\ RLe(rooms.lo, preferences.max_preferred_rooms)
    THEN Pt(RInt(1))
    ELSE IF RLt(rooms.lo, preferences.min_preferred_rooms)
    THEN PyMax(RInt(0), FDiv(rooms.lo, preferences.min_preferred_rooms, np))
    ELSE PyMax(Rat(1, 10), FSubFrom(RInt(1),
                  FMul(Rat(1, 10), Pt(RSub(rooms.lo, preferences.max_preferred_rooms)))))

\* As score_year_built, without the floor of the linear part.
score_year_built_NoFloor(preferences, year_built, np) ==
    IF isna(year_built) THEN Pt(Rat(5, 10))
    ELSE IF RLe(RInt(preferences.preferred_year_threshold), year_built.lo)
    THEN Pt(RInt(1))
    ELSE IF RLe(RInt(preferences.min_preferred_year), year_built.lo)
    THEN FDiv(RSub(year_built.lo, RInt(preferences.min_preferred_year)),
              RInt(preferences.preferred_year_threshold - preferences.min_preferred_year),
              np)
    ELSE Pt(Rat(1, 10))

score_year_built(preferences, year_built, np) ==
    IF isna(year_built) THEN Pt(Rat(5, 10))
    ELSE IF RLe(RInt(preferences.preferred_year_threshold), year_built.lo)
    THEN Pt(RInt(1))
    ELSE IF RLe(RInt(preferences.min_preferred_year), year_built.lo)
    THEN PyMax(Rat(1, 10),
               FDiv(RSub(year_built.lo, RInt(preferences.min_preferred_year)),
                    RInt(preferences.preferred_year_threshold - preferences.min_preferred_year),
                    np))
    ELSE Pt(Rat(1, 10))

score_floor(preferences, floor, total_floors) ==
    IF isna(floor) THEN Pt(Rat(5, 10))
    ELSE IF preferences.avoid_ground_floor /\ RLe(floor.lo, RInt(1))
    THEN Pt(Rat(2, 10))
    ELSE IF Truthy(preferences.preferred_min_floor) /\ Truthy(preferences.preferred_max_floor)
    THEN IF RLe(RInt(preferences.preferred_min_floor.i), floor.lo)
            /\ RLe(floor.lo, RInt(preferences.preferred_max_floor.i))
         THEN Pt(RInt(1))
         ELSE IF RLt(floor.lo, RInt(preferences.preferred_min_floor.i))
         THEN Pt(Rat(6, 10))
         ELSE Pt(Rat(7, 10))
    ELSE Pt(Rat(8, 10))

\* A column that the frame does not have.
Missing == [t |-> "missing"]

\* apartment.get(key, default) for the two boolean columns.
apartment_get(apartment, key, default) ==
    IF apartment[key] = Missing THEN default ELSE apartment[key]

\* clean_data, one cell of a boolean column: the value the map gives it, and
\* False where the map has no entry (fillna). True and 1, False and 0 are the
\* same key of the map.
clean_data_bool(v) ==
    CASE v.t = "str"  -> BoolV(v.s \in {<<"Y", "e", "s">>, <<"y", "e", "s">>})
      [] v.t = "bool" -> v
      [] v.t = "int"  -> BoolV(v.i = 1)
      [] OTHER        -> BoolV(FALSE)

\* The six sub-scores of one row.
sub_scores(self, apartment, np) ==
    [price        |-> score_price(self.preferences, apartment.price, np),
     fee          |-> score_fee(self.preferences, apartment.fee, np),
     price_per_m2 |-> score_price_per_m2(self.preferences, apartment.price_per_m2, np),
     rooms        |-> score_rooms(self.preferences, apartment.rooms, np),
     year_built   |-> score_year_built(self.preferences, apartment.year_built, np),
     floor        |-> score_floor(self.preferences, apartment.floor, apartment.total_floors)]

\* The sum before the bonuses (lines 264-273).
weighted_sum(self, apartment, np) ==
    LET w == self.weights
        s == sub_scores(self, apartment, np)
    IN  FAdd(FAdd(FAdd(FAdd(FAdd(FAdd(Pt(RInt(0)),
            FMul(w.price_weight, s.price)),
            FMul(w.fee_weight, s.fee)),
            FMul(w.price_per_m2_weight, s.price_per_m2)),
            FMul(w.rooms_weight, s.rooms)),
            FMul(w.year_built_weight, s.year_built)),
            FMul(w.floor_weight, s.floor))

\* As calculate_apartment_score, with each bonus added whenever the row has
\* the column.
calculate_apartment_score_BonusIfPresent(self, apartment, np) ==
    LET w  == self.weights
        s0 == weighted_sum(self, apartment, np)
        s1 == IF apartment.has_elevator # Missing
              THEN FAdd(s0, Pt(w.elevator_weight)) ELSE s0
        s2 == IF apartment.has_balcony # Missing
              THEN FAdd(s1, Pt(w.balcony_weight)) ELSE s1
    IN  PyMin(RInt(1), s2)

calculate_apartment_score(self, apartment, np) ==
    LET w  == self.weights
        s0 == weighted_sum(self, apartment, np)
        s1 == IF Truthy(apartment_get(apartment, "has_elevator", BoolV(FALSE)))
              THEN FAdd(s0, Pt(w.elevator_weight)) ELSE s0
        s2 == IF Truthy(apartment_get(apartment, "has_balcony", BoolV(FALSE)))
              THEN FAdd(s1, Pt(w.balcony_weight)) ELSE s1
    IN  PyMin(RInt(1), s2)

----------------------------------------------------------------------------
(* analysis/analyzer.py: clean_data, analyze_apartments, export_results *)

NumericCols ==
    {"price", "fee", "price_per_m2", "rooms", "year_built", "floor", "total_floors"}

BoolCols == {"has_elevator", "has_balcony"}

TextCols == {"url", "address"}

\* The columns of the table that load_data reads.
Columns == TextCols \cup NumericCols \cup BoolCols

\* The float nan that read_csv puts in a cell that is empty in the file.
NaNV == [t |-> "nan"]

\* astype(str), one cell.
astype_str(v) == IF v = NaNV THEN <<"n", "a", "n">> ELSE PyStr(v)

\* clean_data, one cell of a numeric column (lines 144-149): the text of the
\* cell with everything but digits and dots removed, then to_numeric with
\* errors='coerce'.
clean_data_numeric(v) ==
    LET s == SelectSeq(astype_str(v), LAMBDA c : c \in Digits \cup {"."})
        f == FloatOfStr(s)
    IN  IF f.ok THEN Pt(Rat(f.num, f.den)) ELSE NaN

clean_row(row) ==
    [c \in Columns |->
        IF c \in BoolCols THEN clean_data_bool(row[c])
        ELSE IF c \in NumericCols THEN clean_data_numeric(row[c])
        ELSE row[c]]

\* clean_data works on a copy of df and returns the copy.
clean_data(df) == [i \in 1..Len(df) |-> clean_row(df[i])]

\* Line 299: the score of every row of the cleaned table. The table has str
\* columns, so apply hands each row over as Python numbers.
scores_of(self, df) ==
    [i \in 1..Len(df) |-> calculate_apartment_score(self, clean_row(df[i]), FALSE)]

Orderings(n) ==
    {p \in [1..n -> 1..n] : \A i, j \in 1..n : i # j => p[i] # p[j]}

\* x is below y for certain.
Below(x, y) == x.k = "fin" /\ y.k = "fin" /\ RLt(x.hi, y.lo)

\* sort_values('score', ascending=False) with the default kind='quicksort',
\* as the orders it can give: the scores do not increase, nan comes last, and
\* rows with the same score come in whichever order the sorting algorithm
\* that numpy picks for the length of the table and the processor leaves them
\* in. order[r] is the index label of the row at position r.
sort_values(score) ==
    {order \in Orderings(Len(score)) :
        \A r \in 1..(Len(score) - 1) :
            /\ ~Below(score[order[r]], score[order[r + 1]])
            /\ isna(score[order[r]]) => isna(score[order[r + 1]])}

\* One row of the table that analyze_apartments returns: the cleaned row with
\* its score and rank. index is the label the row had before
\* reset_index(drop=True); the returned table does not have it.
scored_row(self, df, order, r, rank) ==
    [index |-> order[r], apartment |-> clean_row(df[order[r]]),
     score |-> calculate_apartment_score(self, clean_row(df[order[r]]), FALSE),
     rank |-> rank]

\* Scoring a row of the table raises.
raises(self, df) ==
    \E i \in 1..Len(df) :
        calculate_apartment_score(self, clean_row(df[i]), FALSE).k = "raise"

\* As analyze_apartments, with the ranks counted from 0.
analyze_apartments_RankFromZero(self, df, order) ==
    IF raises(self, df)
    THEN [outcome |-> "ZeroDivisionError", df |-> df, out |-> <<>>]
    ELSE [outcome |-> "returned", df |-> df,
          out |-> [r \in 1..Len(df) |-> scored_row(self, df, order, r, r - 1)]]

\* As analyze_apartments, with clean_data working on df itself.
analyze_apartments_InPlace(self, df, order) ==
    IF raises(self, df)
    THEN [outcome |-> "ZeroDivisionError", df |-> clean_data(df), out |-> <<>>]
    ELSE [outcome |-> "returned", df |-> clean_data(df),
          out |-> [r \in 1..Len(df) |-> scored_row(self, df, order, r, r)]]

\* analyze_apartments(df), with the order that sort_values gives: whether it
\* returns or raises, df after the call (clean_data works on a copy), and the
\* table returned.
analyze_apartments(self, df, order) ==
    IF raises(self, df)
    THEN [outcome |-> "ZeroDivisionError", df |-> df, out |-> <<>>]
    ELSE [outcome |-> "returned", df |-> df,
          out |-> [r \in 1..Len(df) |-> scored_row(self, df, order, r, r)]]

\* The text to_csv writes for a float that is not nan, left uninterpreted.
float_repr(x) == [repr |-> x]

\* to_csv, one cell: the empty text for nan and None (na_rep), str() for the
\* rest, True and False for a bool.
to_csv(v) ==
    IF "k" \in DOMAIN v THEN (IF isna(v) THEN <<>> ELSE float_repr(v))
    ELSE IF v \in {NaNV, None} THEN <<>>
    ELSE PyStr(v)

\* export_results: the rows written under the header (the order of the
\* columns is not modelled).
export_results(df) ==
    [r \in 1..Len(df) |->
        [c \in Columns \cup {"rank", "score"} |->
            CASE c = "rank"  -> NatToStr(df[r].rank)
              [] c = "score" -> to_csv(df[r].score)
              [] OTHER       -> to_csv(df[r].apartment[c])]]

----------------------------------------------------------------------------
(* Inputs *)

U1 == StrV(<<"u", "1">>)

U2 == StrV(<<"u", "2">>)

A1 == StrV(<<"a", "1">>)

A2 == StrV(<<"a", "2">>)

S1 == StrV(<<"h", "e", "m", "n", "e", "t">>)

Empty == StrV(<<>>)

Letters == StrV(<<"k", "r">>)

PriceValues ==
    {None, IntV(3000), IntV(0), IntV(-1000),
     StrV(<<"3", " ", "0", "0", "0">>), StrV(<<"3", ",", "0", "0", "0">>),
     StrV(<<"3", " ", "0", "0", "0", " ", "k", "r">>),
     StrV(<<"0">>), StrV(<<"-", "5">>), Letters, Empty}

FeeValues ==
    {None, IntV(4500), IntV(0), IntV(-100),
     StrV(<<"4", " ", "5", "0", "0">>), StrV(<<"-", "1", "0", "0">>), Letters}

RoomsValues ==
    {None, IntV(2), IntV(0), IntV(-1), IntV(25),
     StrV(<<"2", ".", "5">>), StrV(<<"2", "0", ".", "5">>), StrV(<<"t", "w", "o">>)}

YearValues ==
    {None, IntV(1990), IntV(1700), IntV(2030),
     StrV(<<"1", "9", "9", "0">>), StrV(<<"1", "7", "0", "0">>), StrV(<<"x">>)}

\* The ways the required fields are present, absent or empty.
RequiredValues ==
    {[url |-> U1, source |-> S1, address |-> A1],
     [url |-> None, source |-> S1, address |-> A1],
     [url |-> Empty, source |-> S1, address |-> A1],
     [url |-> U1, source |-> None, address |-> A1],
     [url |-> U1, source |-> S1, address |-> Empty]}

\* The items handed to ValidationPipeline alone.
ValInputs ==
    {[EmptyItem EXCEPT !["url"] = q.url, !["source"] = q.source, !["address"] = q.address,
                       !["price"] = p, !["fee"] = f, !["rooms"] = r, !["year_built"] = y] :
        q \in RequiredValues, p \in PriceValues, f \in FeeValues,
        r \in RoomsValues, y \in YearValues}

\* The items handed to DuplicatesPipeline alone: with and without a url, and
\* items that share a url and differ elsewhere.
DedupInputs ==
    {[EmptyItem EXCEPT !["url"] = u, !["address"] = a] :
        u \in {None, Empty, U1, U2}, a \in {A1, A2}}

\* The items handed to the whole pipeline.
PipeInputs ==
    {[EmptyItem EXCEPT !["url"] = u, !["source"] = S1, !["address"] = A1, !["price"] = p] :
        u \in {None, U1, U2}, p \in {IntV(3000), StrV(<<"-", "5">>)}}
    \cup
    {[EmptyItem EXCEPT !["url"] = U1, !["source"] = S1, !["address"] = A2,
                       !["has_elevator"] = StrV(<<"n", "o">>),
                       !["scraped_at"] = q.s, !["fee"] = q.f] :
        q \in {[s |-> None, f |-> Letters], [s |-> IsoFormat(0), f |-> None]}}

\* The items handed to DataEnrichmentPipeline alone.
BoolFieldValues ==
    {None, BoolV(TRUE), BoolV(FALSE), IntV(1), IntV(0), Empty,
     StrV(<<"n", "o">>), StrV(<<"n", "e", "j">>), StrV(<<"0">>), StrV(<<"1">>),
     StrV(<<"y", "e", "s">>), StrV(<<"J", "a", " ">>), StrV(<<"t", "r", "u", "e">>),
     StrV(<<"f", "i", "n", "n", "s">>), StrV(<<"h", "i", "s", "s">>)}

EnrichInputs ==
    {[EmptyItem EXCEPT !["url"] = q.u, !["price"] = q.p, !["rooms"] = q.r,
                       !["has_elevator"] = e, !["has_balcony"] = b,
                       !["scraped_at"] = s] :
        q \in {[u |-> U1, p |-> IntV(3000), r |-> StrV(<<"2", ".", "5">>)],
               [u |-> U1, p |-> Letters, r |-> IntV(2)],
               [u |-> None, p |-> None, r |-> None]},
        e \in BoolFieldValues,
        b \in {None, BoolV(TRUE), StrV(<<"n", "o">>), StrV(<<"j", "a">>)},
        s \in {None, Empty, IsoFormat(0)}}

\* The items handed to CSVExportPipeline: an item as the enrichment stage
\* leaves it, and one with fields that are not set.
CsvInputs ==
    {[EmptyItem EXCEPT !["url"] = U1, !["source"] = S1, !["address"] = A1,
                       !["price"] = IntV(3000), !["rooms"] = StrV(<<"2", ".", "5">>),
                       !["has_elevator"] = BoolV(TRUE), !["has_balcony"] = BoolV(FALSE),
                       !["scraped_at"] = IsoFormat(0)],
     [EmptyItem EXCEPT !["url"] = U2, !["source"] = S1,
                       !["price"] = StrV(<<"3", " ", "0", "0", "0">>),
                       !["has_balcony"] = BoolV(TRUE)]}

U3 == StrV(<<"u", "3">>)

U4 == StrV(<<"u", "4">>)

U5 == StrV(<<"u", "5">>)

\* A row of the file that load_data reads, as read_csv gives it.
RawRow ==
    [url |-> U1, address |-> A1, price |-> IntV(2500000), fee |-> IntV(3500),
     price_per_m2 |-> IntV(50000), rooms |-> StrV(<<"2", ".", "5">>),
     year_built |-> IntV(1975), floor |-> IntV(4), total_floors |-> IntV(7),
     has_elevator |-> StrV(Yes), has_balcony |-> StrV(No)]

\* The rows of the tables handed to analyze_apartments: RawRow; a row with the
\* same values written otherwise; a row with text, nothing and nan in the
\* numeric and boolean columns; a cheap row; and a row with a price at
\* min_acceptable_price.
AnalyzeRows ==
    {RawRow,
     [RawRow EXCEPT !.url = U2,
                    !.price = StrV(NatToStr(2500000) \o <<" ", "k", "r">>),
                    !.has_elevator = BoolV(TRUE), !.has_balcony = BoolV(FALSE)],
     [RawRow EXCEPT !.url = U3, !.address = None, !.price = Letters, !.fee = NaNV,
                    !.year_built = None, !.has_elevator = NaNV],
     [RawRow EXCEPT !.url = U4, !.price = IntV(500000), !.fee = IntV(1000),
                    !.has_balcony = StrV(Yes)],
     [RawRow EXCEPT !.url = U5, !.price = IntV(1000000)]}

\* The tables: every sequence of up to MaxRows of the rows.
Tables == UNION {[1..n -> AnalyzeRows] : n \in 0..MaxRows}

\* The preferences the analyzer is built with: the defaults, and the defaults
\* with one group of reference points replaced (the command line replaces
\* max_preferred_price, max_preferred_fee, min_preferred_rooms and
\* max_preferred_rooms; the constructor takes any of them).
PreferenceConfigs ==
    {ScoringPreferences}
    \cup {[ScoringPreferences EXCEPT !.max_preferred_price = m] :
            m \in {2000000, 1000000, 500000, -1000000}}
    \cup {[ScoringPreferences EXCEPT !.max_preferred_fee = m] : m \in {2000, 1000, 0}}
    \cup {[ScoringPreferences EXCEPT !.max_preferred_price_per_m2 = 50000,
                                     !.min_acceptable_price_per_m2 = 0]}
    \cup {[ScoringPreferences EXCEPT !.min_preferred_rooms = b.lo,
                                     !.max_preferred_rooms = b.hi] :
            b \in {[lo |-> Rat(1, 1), hi |-> Rat(1, 1)], [lo |-> Rat(3, 2), hi |-> Rat(6, 1)],
                   [lo |-> Rat(5, 1), hi |-> Rat(4, 1)]}}
    \cup {[ScoringPreferences EXCEPT !.min_preferred_year = y.lo,
                                     !.preferred_year_threshold = y.hi] :
            y \in {[lo |-> 1990, hi |-> 1990], [lo |-> 2000, hi |-> 1990]}}
    \cup {[ScoringPreferences EXCEPT !.preferred_min_floor = f.lo,
                                     !.preferred_max_floor = f.hi,
                                     !.avoid_ground_floor = f.avoid] :
            f \in {[lo |-> None, hi |-> None, avoid |-> FALSE],
                   [lo |-> IntV(0), hi |-> IntV(3), avoid |-> FALSE],
                   [lo |-> IntV(2), hi |-> IntV(6), avoid |-> FALSE]}}

\* The weights the analyzer is built with, each in [0, 1].
WeightConfigs ==
    {ScoringWeights,
     [f \in DOMAIN ScoringWeights |-> RInt(1)],
     [f \in DOMAIN ScoringWeights |-> RInt(0)],
     [ScoringWeights EXCEPT !.price_weight = Rat(20, 100), !.floor_weight = Rat(10, 100)]}

\* The cells of a cleaned numeric column: NaN, or a number that is not negative
\* (clean_data strips the minus sign).
Cells(ns) == {NaN} \cup {Pt(q) : q \in ns}

PriceCells ==
    Cells({RInt(n) : n \in {0, 500000, 1000000, 2000000, 2500000, 4000000,
                            5000000, 8000000}})

FeeCells == Cells({RInt(n) : n \in {0, 1000, 2000, 3500, 5000, 6000, 10000}})

PricePerM2Cells == Cells({RInt(n) : n \in {20000, 30000, 50000, 70000, 80000, 140000}})

RoomsCells ==
    Cells({Rat(0, 1), Rat(1, 1), Rat(3, 2), Rat(2, 1), Rat(5, 2), Rat(4, 1),
           Rat(9, 2), Rat(5, 1), Rat(8, 1), Rat(14, 1)})

YearCells == Cells({RInt(n) : n \in {1900, 1960, 1962, 1975, 1990, 2020}})

FloorCells == Cells({RInt(n) : n \in {0, 1, 2, 4, 6, 7}})

\* The cells of a cleaned boolean column.
BoolCells ==
    {clean_data_bool(v) :
        v \in {None, BoolV(TRUE), BoolV(FALSE), IntV(1), IntV(0),
               StrV(<<"Y", "e", "s">>), StrV(<<"N", "o">>), StrV(<<"j", "a">>)}}

SubScoreNames == {"price", "fee", "price_per_m2", "rooms", "year_built", "floor"}

CellsOf(name) ==
    CASE name = "price"        -> PriceCells
      [] name = "fee"          -> FeeCells
      [] name = "price_per_m2" -> PricePerM2Cells
      [] name = "rooms"        -> RoomsCells
      [] name = "year_built"   -> YearCells
      [] name = "floor"        -> FloorCells

BaseRow ==
    [price |-> Pt(RInt(2500000)), fee |-> Pt(RInt(3500)), price_per_m2 |-> Pt(RInt(50000)),
     rooms |-> Pt(Rat(5, 2)), year_built |-> Pt(RInt(1975)), floor |-> Pt(RInt(4)),
     total_floors |-> Pt(RInt(7)), has_elevator |-> BoolV(TRUE), has_balcony |-> BoolV(FALSE)]

\* The rows handed to calculate_apartment_score: BaseRow with one numeric cell
\* replaced, rows with every combination of the boolean cells (the column
\* there or not), the row with nothing but NaN, and the best row.
ScoreRows ==
    UNION {{[BaseRow EXCEPT ![name] = c] : c \in CellsOf(name)} : name \in SubScoreNames}
    \cup {[BaseRow EXCEPT !.has_elevator = e, !.has_balcony = b] :
            e \in BoolCells \cup {Missing}, b \in BoolCells \cup {Missing}}
    \cup {[BaseRow EXCEPT !.price = NaN, !.fee = NaN, !.price_per_m2 = NaN, !.rooms = NaN,
                          !.year_built = NaN, !.floor = NaN, !.total_floors = NaN,
                          !.has_elevator = e, !.has_balcony = e] :
            e \in {BoolV(FALSE), Missing}}
    \cup {[BaseRow EXCEPT !.price = Pt(RInt(500000)), !.fee = Pt(RInt(1000)),
                          !.price_per_m2 = Pt(RInt(20000)), !.year_built = Pt(RInt(2020)),
                          !.has_balcony = BoolV(TRUE)]}

----------------------------------------------------------------------------
(* State *)

Workers == 1..NWorkers

NoResult ==
    [outcome |-> "", item |-> EmptyItem, field |-> "", raw |-> None, warnings |-> {}]

NoAnalysis ==
    [outcome |-> "", input |-> <<>>, df |-> <<>>, out |-> <<>>,
     exported |-> FALSE, rows |-> <<>>]

Init ==
    /\ seen_urls = {}
    /\ now = 0
    /\ calls = <<>>
    /\ result = NoResult
    /\ pc = [w \in Workers |-> "idle"]
    /\ witem = [w \in Workers |-> EmptyItem]
    /\ wurl = [w \in Workers |-> None]
    /\ analyzer = ApartmentAnalyzer(ScoringWeights, ScoringPreferences)
    /\ scored = <<>>
    /\ csv = CSVExportPipeline
    /\ analysis = NoAnalysis

\* One entry of the history: the item handed in, the stages that ran on it with
\* their outcomes, and the final outcome with the item handed on.
Call(item, stages, outcome, out) ==
    [item |-> item, stages |-> stages, outcome |-> outcome, out |-> out]

Stage(name, outcome) == [stage |-> name, outcome |-> outcome]

----------------------------------------------------------------------------
(* ValidationPipeline alone *)

\* ValidationPipeline keeps no state, so a call's result depends on its argument
\* alone: each behaviour makes one call.
Validate(item) ==
    /\ calls = <<>>
    /\ LET v == ValidationPipeline_process_item(item)
       IN  /\ result' = v
           /\ calls' = <<Call(item, <<Stage("validate", v.outcome)>>, v.outcome, v.item)>>
    /\ UNCHANGED <<seen_urls, now, pc, witem, wurl, analyzer, scored, csv, analysis>>

NextValidate == \E item \in ValInputs : Validate(item)

SpecValidate == Init /\ [][NextValidate]_vars

----------------------------------------------------------------------------
(* DuplicatesPipeline alone, one caller *)

Dedup(item) ==
    /\ Len(calls) < MaxCalls
    /\ LET d == DuplicatesPipeline_process_item(seen_urls, item)
       IN  /\ seen_urls' = d.seen
           /\ calls' = Append(calls, Call(item, <<Stage("dedup", d.outcome)>>, d.outcome, d.item))
    /\ UNCHANGED <<now, result, pc, witem, wurl, analyzer, scored, csv, analysis>>

NextDedup == \E item \in DedupInputs : Dedup(item)

SpecDedup == Init /\ [][NextDedup]_vars

----------------------------------------------------------------------------
(* DuplicatesPipeline, several callers. The class holds no lock, so a caller *)
(* can be preempted between any two statements of process_item.              *)

\* Line 83: url = item.get('url')
W_get(w, item) ==
    /\ pc[w] = "idle"
    /\ Len(calls) + Cardinality({v \in Workers : pc[v] # "idle"}) < MaxCalls
    /\ witem' = [witem EXCEPT ![w] = item]
    /\ wurl' = [wurl EXCEPT ![w] = Get(item, "url")]
    /\ pc' = [pc EXCEPT ![w] = "check"]
    /\ UNCHANGED <<seen_urls, now, calls, result, analyzer, scored, csv, analysis>>

\* Lines 85-86: if url in self.seen_urls: raise DropItem
W_check(w) ==
    /\ pc[w] = "check"
    /\ IF wurl[w] \in seen_urls
       THEN /\ calls' = Append(calls, Call(witem[w], <<Stage("dedup", "DropItem")>>,
                                           "DropItem", witem[w]))
            /\ pc' = [pc EXCEPT ![w] = "idle"]
       ELSE /\ pc' = [pc EXCEPT ![w] = "add"]
            /\ UNCHANGED calls
    /\ UNCHANGED <<seen_urls, now, result, witem, wurl, analyzer, scored, csv, analysis>>

\* Lines 88-89: self.seen_urls.add(url); return item
W_add(w) ==
    /\ pc[w] = "add"
    /\ seen_urls' = seen_urls \cup {wurl[w]}
    /\ calls' = Append(calls, Call(witem[w], <<Stage("dedup", "item")>>, "item", witem[w]))
    /\ pc' = [pc EXCEPT ![w] = "idle"]
    /\ UNCHANGED <<now, result, witem, wurl, analyzer, scored, csv, analysis>>

NextConc ==
    \E w \in Workers :
        \/ \E item \in DedupInputs : W_get(w, item)
        \/ W_check(w)
        \/ W_add(w)

SpecConc == Init /\ [][NextConc]_vars

----------------------------------------------------------------------------
(* DataEnrichmentPipeline alone: one call on an item, then a call on the     *)
(* item that call returned.                                                  *)

Enrich(item, t) ==
    /\ calls = <<>>
    /\ now' = t
    /\ calls' = <<Call(item, <<Stage("enrich", "item")>>, "item",
                       DataEnrichmentPipeline_process_item(item, t))>>
    /\ UNCHANGED <<seen_urls, result, pc, witem, wurl, analyzer, scored, csv, analysis>>

EnrichAgain(t) ==
    /\ Len(calls) = 1
    /\ now' = t
    /\ calls' = Append(calls, Call(calls[1].out, <<Stage("enrich", "item")>>, "item",
                                   DataEnrichmentPipeline_process_item(calls[1].out, t)))
    /\ UNCHANGED <<seen_urls, result, pc, witem, wurl, analyzer, scored, csv, analysis>>

NextEnrich ==
    \/ \E item \in EnrichInputs, t \in {now, now + 1} : Enrich(item, t)
    \/ \E t \in {now, now + 1} : EnrichAgain(t)

SpecEnrich == Init /\ [][NextEnrich]_vars

----------------------------------------------------------------------------
(* The scoring functions of an ApartmentAnalyzer built with any of the       *)
(* preference configurations.                                                *)

InitSubScore ==
    /\ seen_urls = {}
    /\ now = 0
    /\ calls = <<>>
    /\ result = NoResult
    /\ pc = [w \in Workers |-> "idle"]
    /\ witem = [w \in Workers |-> EmptyItem]
    /\ wurl = [w \in Workers |-> None]
    /\ analyzer \in {ApartmentAnalyzer(ScoringWeights, p) : p \in PreferenceConfigs}
    /\ scored = <<>>
    /\ csv = CSVExportPipeline
    /\ analysis = NoAnalysis

\* self.score_<name>(value)
sub_score(name, value, np) ==
    CASE name = "price"        -> score_price(analyzer.preferences, value, np)
      [] name = "fee"          -> score_fee(analyzer.preferences, value, np)
      [] name = "price_per_m2" -> score_price_per_m2(analyzer.preferences, value, np)
      [] name = "rooms"        -> score_rooms(analyzer.preferences, value, np)
      [] name = "year_built"   -> score_year_built(analyzer.preferences, value, np)
      [] name = "floor"        -> score_floor(analyzer.preferences, value, NaN)

\* One call of a scoring function.
SubScore(name, value, np) ==
    /\ scored = <<>>
    /\ scored' = <<[name |-> name, value |-> value, np |-> np,
                    out |-> sub_score(name, value, np)]>>
    /\ UNCHANGED <<seen_urls, now, calls, result, pc, witem, wurl, analyzer, csv, analysis>>

\* A call of the same function on another value.
SubScoreAgain(value) ==
    /\ Len(scored) = 1
    /\ scored' = Append(scored, [name |-> scored[1].name, value |-> value, np |-> scored[1].np,
                                 out |-> sub_score(scored[1].name, value, scored[1].np)])
    /\ UNCHANGED <<seen_urls, now, calls, result, pc, witem, wurl, analyzer, csv, analysis>>

NextSubScore ==
    \/ \E name \in SubScoreNames, np \in BOOLEAN :
          \E value \in CellsOf(name) : SubScore(name, value, np)
    \/ Len(scored) = 1 /\ \E value \in CellsOf(scored[1].name) : SubScoreAgain(value)

SpecSubScore == InitSubScore /\ [][NextSubScore]_vars

----------------------------------------------------------------------------
(* calculate_apartment_score of an ApartmentAnalyzer built with any of the   *)
(* weight and preference configurations, on one row.                         *)

InitScore ==
    /\ seen_urls = {}
    /\ now = 0
    /\ calls = <<>>
    /\ result = NoResult
    /\ pc = [w \in Workers |-> "idle"]
    /\ witem = [w \in Workers |-> EmptyItem]
    /\ wurl = [w \in Workers |-> None]
    /\ analyzer \in {ApartmentAnalyzer(w, p) : w \in WeightConfigs, p \in PreferenceConfigs}
    /\ scored = <<>>
    /\ csv = CSVExportPipeline
    /\ analysis = NoAnalysis

Score(apartment, np) ==
    /\ scored = <<>>
    /\ scored' = <<[apartment |-> apartment, np |-> np,
                    subs |-> sub_scores(analyzer, apartment, np),
                    out |-> calculate_apartment_score(analyzer, apartment, np)]>>
    /\ UNCHANGED <<seen_urls, now, calls, result, pc, witem, wurl, analyzer, csv, analysis>>

NextScore == \E apartment \in ScoreRows, np \in BOOLEAN : Score(apartment, np)

SpecScore == InitScore /\ [][NextScore]_vars

----------------------------------------------------------------------------
(* CSVExportPipeline alone: open_spider, process_item and close_spider in    *)
(* any order, for two spiders.                                               *)

OpenSpider(spider) ==
    /\ Len(csv.log) < MaxCsvCalls
    /\ csv' = open_spider(csv, spider)
    /\ UNCHANGED <<seen_urls, now, calls, result, pc, witem, wurl, analyzer, scored, analysis>>

CloseSpider(spider) ==
    /\ Len(csv.log) < MaxCsvCalls
    /\ csv' = close_spider(csv, spider)
    /\ UNCHANGED <<seen_urls, now, calls, result, pc, witem, wurl, analyzer, scored, analysis>>

CsvProcessItem(item, spider) ==
    /\ Len(csv.log) < MaxCsvCalls
    /\ csv' = CSVExportPipeline_process_item(csv, item, spider)
    /\ UNCHANGED <<seen_urls, now, calls, result, pc, witem, wurl, analyzer, scored, analysis>>

Finalize(id) ==
    /\ id \in Unreferenced(csv)
    /\ ~csv.disk[id].closed
    /\ csv' = finalize(csv, id)
    /\ UNCHANGED <<seen_urls, now, calls, result, pc, witem, wurl, analyzer, scored, analysis>>

NextCsv ==
    \/ \E spider \in Spiders : OpenSpider(spider)
    \/ \E spider \in Spiders : CloseSpider(spider)
    \/ \E item \in CsvInputs, spider \in Spiders : CsvProcessItem(item, spider)
    \/ \E id \in 1..Len(csv.disk) : Finalize(id)

SpecCsv == Init /\ [][NextCsv]_vars

----------------------------------------------------------------------------
(* analyze_apartments on a table, then export_results on what it returns,    *)
(* with the default preferences and with max_preferred_price lowered.        *)

InitAnalyze ==
    /\ seen_urls = {}
    /\ now = 0
    /\ calls = <<>>
    /\ result = NoResult
    /\ pc = [w \in Workers |-> "idle"]
    /\ witem = [w \in Workers |-> EmptyItem]
    /\ wurl = [w \in Workers |-> None]
    /\ analyzer \in {ApartmentAnalyzer(ScoringWeights, p) :
                        p \in {ScoringPreferences,
                               [ScoringPreferences EXCEPT !.max_preferred_price = 1000000]}}
    /\ scored = <<>>
    /\ csv = CSVExportPipeline
    /\ analysis = NoAnalysis

Analyze(df) ==
    /\ analysis.outcome = ""
    /\ \E score \in {scores_of(analyzer, df)} :
          \E order \in sort_values(score) :
              \E a \in {analyze_apartments(analyzer, df, order)} :
                  analysis' = [NoAnalysis EXCEPT !.outcome = a.outcome, !.input = df,
                                                 !.df = a.df, !.out = a.out]
    /\ UNCHANGED <<seen_urls, now, calls, result, pc, witem, wurl, analyzer, scored, csv>>

Export ==
    /\ analysis.outcome = "returned"
    /\ ~analysis.exported
    /\ analysis' = [analysis EXCEPT !.exported = TRUE,
                                    !.rows = export_results(analysis.out)]
    /\ UNCHANGED <<seen_urls, now, calls, result, pc, witem, wurl, analyzer, scored, csv>>

NextAnalyze ==
    \/ \E df \in Tables : Analyze(df)
    \/ Export

SpecAnalyze == InitAnalyze /\ [][NextAnalyze]_vars

----------------------------------------------------------------------------
(* The whole pipeline: each item goes through the stages in order, and a     *)
(* stage that raises DropItem ends the item's processing.                    *)

ProcessItem(item, t) ==
    /\ Len(calls) < MaxCalls
    /\ now' = t
    /\ LET v == ValidationPipeline_process_item(item)
           d == DuplicatesPipeline_process_item(seen_urls, v.item)
           e == DataEnrichmentPipeline_process_item(d.item, t)
       IN  IF v.outcome = "DropItem"
           THEN /\ calls' = Append(calls, Call(item, <<Stage("validate", "DropItem")>>,
                                               "DropItem", item))
                /\ UNCHANGED seen_urls
           ELSE IF d.outcome = "DropItem"
           THEN /\ calls' = Append(calls, Call(item, <<Stage("validate", "item"),
                                                       Stage("dedup", "DropItem")>>,
                                               "DropItem", v.item))
                /\ seen_urls' = d.seen
           ELSE /\ calls' = Append(calls, Call(item, <<Stage("validate", "item"),
                                                       Stage("dedup", "item"),
                                                       Stage("enrich", "item")>>,
                                               "item", e))
                /\ seen_urls' = d.seen
    /\ UNCHANGED <<result, pc, witem, wurl, analyzer, scored, csv, analysis>>

\* The clock does not run backwards between two items.
Next == \E item \in PipeInputs, t \in {now, now + 1} : ProcessItem(item, t)

Spec == Init /\ [][Next]_vars

----------------------------------------------------------------------------
(* Properties of DuplicatesPipeline *)

UrlOf(c) == Get(c.item, "url")

Accepted(c) == c.outcome = "item"

\* C1: among the items handed to one DuplicatesPipeline, an item that has a url
\* is returned exactly when no earlier item had the same url; so for each url
\* the first item is returned and every later one is dropped, whatever its
\* other fields are.
C1_FirstOccurrenceWins ==
    \A k \in 1..Len(calls) :
        UrlOf(calls[k]) # None =>
            (Accepted(calls[k]) <=> \A j \in 1..(k - 1) : UrlOf(calls[j]) # UrlOf(calls[k]))

C1_Witness ==
    /\ Len(calls) = 3
    /\ \A k \in 1..3 : UrlOf(calls[k]) = U1
    /\ Get(calls[1].item, "address") # Get(calls[2].item, "address")
    /\ Accepted(calls[1]) /\ ~Accepted(calls[2]) /\ ~Accepted(calls[3])

\* C2: an item without a url is always returned, and it never makes a later
\* item be dropped: an item is dropped only when an earlier item had the same,
\* present, url.
C2_MissingUrlAlwaysUnique ==
    /\ \A k \in 1..Len(calls) : UrlOf(calls[k]) = None => Accepted(calls[k])
    /\ \A k \in 1..Len(calls) :
          ~Accepted(calls[k]) =>
              \E j \in 1..(k - 1) : UrlOf(calls[j]) # None /\ UrlOf(calls[j]) = UrlOf(calls[k])

\* C3: with several callers, at most one item per url is returned.
C3_AtMostOnePerUrl ==
    \A j, k \in 1..Len(calls) :
        (Accepted(calls[j]) /\ Accepted(calls[k]) /\ UrlOf(calls[j]) = UrlOf(calls[k])) => j = k

AcceptedUrls == {UrlOf(calls[k]) : k \in {j \in 1..Len(calls) : Accepted(calls[j])}}

\* C4: seen_urls starts empty, is at every moment the set of the url values
\* (item.get('url')) of the items returned so far, never loses an element, and
\* is left as it was by a call that drops its item.
C4_SeenUrlsGrows ==
    /\ seen_urls = {}
    /\ [](seen_urls = AcceptedUrls)
    /\ [][seen_urls \subseteq seen_urls']_vars
    /\ [][(Len(calls') = Len(calls) + 1 /\ ~Accepted(calls'[Len(calls')]))
             => seen_urls' = seen_urls]_vars

C4_Witness ==
    /\ Cardinality(seen_urls) = 2
    /\ \E k \in 1..Len(calls) : ~Accepted(calls[k])

----------------------------------------------------------------------------
(* Properties of the whole pipeline *)

StageOrder == <<"validate", "dedup", "enrich">>

PassedValidation(c) == c.stages[1] = Stage("validate", "item")

\* C5: every item goes through validate, dedup, enrich in this order and stops
\* at the first stage that drops it; seen_urls holds only urls of items that
\* passed validation, and an item that passed validation is dropped by dedup
\* exactly when an earlier item that passed validation had the same url (an
\* earlier item dropped by validation does not count).
C5_StagesInOrder ==
    /\ \A k \in 1..Len(calls) :
          LET st == calls[k].stages
          IN  /\ Len(st) \in 1..3
              /\ \A n \in 1..Len(st) : st[n].stage = StageOrder[n]
              /\ \A n \in 1..(Len(st) - 1) : st[n].outcome = "item"
              /\ st[Len(st)].outcome = "item" => Len(st) = 3
              /\ calls[k].outcome = st[Len(st)].outcome
    /\ seen_urls \subseteq {UrlOf(calls[k]) : k \in {j \in 1..Len(calls) : PassedValidation(calls[j])}}
    /\ \A k \in 1..Len(calls) :
          PassedValidation(calls[k]) =>
              (Accepted(calls[k]) <=>
                  \A j \in 1..(k - 1) :
                      PassedValidation(calls[j]) => UrlOf(calls[j]) # UrlOf(calls[k]))

C5_Witness ==
    /\ Len(calls) = 3
    /\ \A k \in 1..3 : UrlOf(calls[k]) = U1
    /\ calls[1].stages = <<Stage("validate", "DropItem")>>
    /\ Len(calls[2].stages) = 3 /\ Accepted(calls[2])
    /\ calls[3].stages = <<Stage("validate", "item"), Stage("dedup", "DropItem")>>

----------------------------------------------------------------------------
(* Properties of ValidationPipeline, stated on the one call of SpecValidate.  *)
(* The conditions below are those of the specification, not those the code    *)
(* tests.                                                                     *)

Rejected(c) == c.outcome = "DropItem"

\* A value is present when it is neither None nor the empty string.
Present(v) == v # None /\ v # Empty

RequiredOk(item) == \A f \in {"url", "source", "address"} : Present(Get(item, f))

\* The characters left of a str once everything but the digits and a leading
\* minus sign is stripped.
Stripped(s) ==
    (IF LStrip(s) # <<>> /\ Head(LStrip(s)) = "-" THEN <<"-">> ELSE <<>>)
        \o SelectSeq(s, LAMBDA x : x \in Digits)

\* The number a present value stands for once stripped; ok = FALSE when it is
\* not numeric.
NumberOf(v) == IF v.t = "str" THEN IntOfStr(Stripped(v.s)) ELSE PyInt(v)

NonNumeric(v) == Present(v) /\ ~NumberOf(v).ok

PriceFatal(item) ==
    LET p == Get(item, "price")
    IN  Present(p) /\ (~NumberOf(p).ok \/ NumberOf(p).num <= 0)

FeeFatal(item) ==
    LET f == Get(item, "fee")
    IN  Present(f) /\ NumberOf(f).ok /\ NumberOf(f).num < 0

Fatal(item) == ~RequiredOk(item) \/ PriceFatal(item) \/ FeeFatal(item)

\* C6: validate rejects exactly the items with a fatal condition; an item with
\* a required field absent or empty is rejected; an item with its required
\* fields and no invalid optional field is returned.
C6_RejectsIffFatal ==
    \A k \in 1..Len(calls) :
        LET c == calls[k]
        IN  /\ Rejected(c) <=> Fatal(c.item)
            /\ ~RequiredOk(c.item) => Rejected(c)
            /\ (RequiredOk(c.item) /\ ~PriceFatal(c.item) /\ ~FeeFatal(c.item))
                  => ~Rejected(c)

\* C7: an item whose price is present and not numeric once stripped is rejected.
C7_NonNumericPriceRejected ==
    \A k \in 1..Len(calls) :
        NonNumeric(Get(calls[k].item, "price")) => Rejected(calls[k])

\* C8: an item whose price is present and stands for a number <= 0, or whose
\* fee is present and stands for a number < 0, is rejected.
C8_BadSignRejected ==
    \A k \in 1..Len(calls) :
        LET p == Get(calls[k].item, "price")
            f == Get(calls[k].item, "fee")
        IN  (\/ Present(p) /\ NumberOf(p).ok /\ NumberOf(p).num <= 0
             \/ Present(f) /\ NumberOf(f).ok /\ NumberOf(f).num < 0)
            => Rejected(calls[k])

\* C9: an item that is valid but for a present, non-numeric fee is returned,
\* and the item returned carries no fee.
C9_NonNumericFeeNulled ==
    \A k \in 1..Len(calls) :
        LET c == calls[k]
        IN  (RequiredOk(c.item) /\ ~PriceFatal(c.item) /\ NonNumeric(Get(c.item, "fee")))
            => (~Rejected(c) /\ Get(c.out, "fee") = None)

RoomsOutOfRange(item) ==
    LET r == PyFloat(Get(item, "rooms"))
    IN  Present(Get(item, "rooms")) /\ r.ok /\ (r.num <= 0 \/ r.num > 20 * r.den)

YearOutOfRange(item) ==
    LET y == PyInt(Get(item, "year_built"))
    IN  Present(Get(item, "year_built")) /\ y.ok /\ (y.num < 1800 \/ y.num > CurrentYear)

\* C10 as stated: an item that has its required fields and a rooms value
\* outside (0, 20] or a year_built outside [1800, current year] is returned,
\* with every field as it was.
C10_OutOfRangeAccepted ==
    \A k \in 1..Len(calls) :
        LET c == calls[k]
        IN  (RequiredOk(c.item) /\ (RoomsOutOfRange(c.item) \/ YearOutOfRange(c.item)))
            => (~Rejected(c) /\ c.out = c.item)

\* C10 as amended: an item that has its required fields, that validate does
\* not drop for its price or its fee, and that has a rooms value outside
\* (0, 20] or a year_built outside [1800, current year], is returned, with
\* every field as it was.
C10_OutOfRangeAcceptedUnlessPriceOrFee ==
    \A k \in 1..Len(calls) :
        LET c == calls[k]
        IN  (RequiredOk(c.item) /\ CheckPrice(c.item) # "drop" /\ CheckFee(c.item) # "drop"
               /\ (RoomsOutOfRange(c.item) \/ YearOutOfRange(c.item)))
            => (~Rejected(c) /\ c.out = c.item)

C10_Witness ==
    /\ Len(calls) = 1
    /\ Get(calls[1].item, "rooms") = IntV(25)
    /\ Get(calls[1].item, "year_built") = IntV(1700)
    /\ Get(calls[1].item, "price") = IntV(3000)
    /\ result.warnings = {"rooms", "year_built"}
    /\ ~Rejected(calls[1]) /\ calls[1].out = calls[1].item

----------------------------------------------------------------------------
(* Properties of the records leaving the pipeline and of                     *)
(* DataEnrichmentPipeline.                                                    *)

NumericFields == {"price", "fee", "rooms", "year_built"}

BoolFields == {"has_elevator", "has_balcony"}

\* The CleanRecord of the specification: no numeric field holds a value that
\* is not numeric, each boolean field is a bool, scraped_at and url are present.
CleanRecord(item) ==
    /\ \A f \in NumericFields : ~NonNumeric(Get(item, f))
    /\ \A f \in BoolFields : Get(item, f).t = "bool"
    /\ Present(Get(item, "scraped_at"))
    /\ Present(Get(item, "url"))

\* C11: every item that leaves the pipeline (validate, dedup and enrich all
\* returned it) is a CleanRecord.
C11_AcceptedIsClean ==
    \A k \in 1..Len(calls) : Accepted(calls[k]) => CleanRecord(calls[k].out)

\* C12: enrich sets a boolean field whose value is not a bool to true exactly
\* when the value is one of the tokens yes, ja, true, 1, finns, hiss, and to
\* false otherwise.
C12_TokenCoercion ==
    \A k \in 1..Len(calls) : \A f \in BoolFields :
        Get(calls[k].item, f).t # "bool"
            => Get(calls[k].out, f) = BoolV(parse_boolean(Get(calls[k].item, f)))

\* C13: enrich leaves a present scraped_at as it is and sets an absent one to
\* the current time; a second call, on the item the first call returned,
\* returns it with every field as it was.
C13_StampOnlyWhenAbsent ==
    /\ \A k \in 1..Len(calls) :
          LET before == Get(calls[k].item, "scraped_at")
              after  == Get(calls[k].out, "scraped_at")
          IN  /\ Present(before) => after = before
              /\ ~Present(before) => (Present(after) /\ (k = Len(calls) => after = IsoFormat(now)))
    /\ Len(calls) = 2 => (calls[2].item = calls[1].out /\ calls[2].out = calls[2].item)

C13_Witness ==
    /\ Len(calls) = 2
    /\ Get(calls[1].item, "scraped_at") = None
    /\ Get(calls[1].item, "has_elevator") = StrV(<<"y", "e", "s">>)
    /\ Get(calls[1].out, "scraped_at") = IsoFormat(0)
    /\ now = 1
    /\ calls[2].out = calls[1].out

\* C14: enrich returns an item for every item it is given, and the item it
\* returns differs from the one given in has_elevator, has_balcony and
\* scraped_at at most.
C14_TotalAndFrame ==
    \A k \in 1..Len(calls) :
        /\ calls[k].outcome = "item"
        /\ DOMAIN calls[k].out = Fields
        /\ \A f \in Fields \ (BoolFields \cup {"scraped_at"}) :
              Get(calls[k].out, f) = Get(calls[k].item, f)

C14_Witness ==
    /\ Len(calls) = 1
    /\ Get(calls[1].item, "price") = Letters
    /\ Get(calls[1].item, "rooms") = IntV(2)
    /\ Get(calls[1].item, "has_balcony") = StrV(<<"j", "a">>)
    /\ Get(calls[1].item, "scraped_at") = Empty
    /\ calls[1].out # calls[1].item
    /\ Get(calls[1].out, "price") = Letters
    /\ Get(calls[1].out, "rooms") = IntV(2)

----------------------------------------------------------------------------
(* Properties of the scoring functions. A float that np.exp produced is      *)
(* known by its bounds only: it is surely in a range when both bounds are,   *)
(* and surely outside when one bound is beyond the range.                    *)

Computed(x) == x.k # "raise"

SurelyInUnit(x) == x.k = "fin" /\ RLe(RInt(0), x.lo) /\ RLe(x.hi, RInt(1))

PossiblyInUnit(x) == x.k = "fin" /\ RLe(RInt(0), x.hi) /\ RLe(x.lo, RInt(1))

WeightsInUnit(w) == \A f \in DOMAIN w : RLe(RInt(0), w[f]) /\ RLe(w[f], RInt(1))

\* C15: with weights in [0, 1], every sub-score that is computed and the final
\* score lie in [0, 1], for every row and every preferences. (Stated so that
\* it is violated only by a value that is surely outside [0, 1].)
C15_ScoresInUnit ==
    \A k \in 1..Len(scored) :
        WeightsInUnit(analyzer.weights) =>
            /\ \A name \in SubScoreNames :
                  Computed(scored[k].subs[name]) => PossiblyInUnit(scored[k].subs[name])
            /\ Computed(scored[k].out) => PossiblyInUnit(scored[k].out)

\* The weight a boolean column adds: the weight when the cell is there and
\* true, nothing when it is false or the column is not there.
Bonus(apartment, column, weight) ==
    IF apartment[column] = BoolV(TRUE) THEN weight ELSE RInt(0)

\* The score the specification gives a row whose sub-scores are subs.
ExpectedScore(w, apartment, subs) ==
    LET terms == <<FMul(w.floor_weight, subs.floor),
                   FMul(w.year_built_weight, subs.year_built),
                   FMul(w.rooms_weight, subs.rooms),
                   FMul(w.price_per_m2_weight, subs.price_per_m2),
                   FMul(w.fee_weight, subs.fee),
                   FMul(w.price_weight, subs.price)>>
        sum == FAdd(terms[1], FAdd(terms[2], FAdd(terms[3],
                 FAdd(terms[4], FAdd(terms[5], terms[6])))))
        all == FAdd(sum, Pt(RAdd(Bonus(apartment, "has_elevator", w.elevator_weight),
                                 Bonus(apartment, "has_balcony", w.balcony_weight))))
    IN  IF RLt(all.hi, RInt(1)) THEN all
        ELSE IF RLt(all.lo, RInt(1)) THEN Fin(all.lo, RInt(1))
        ELSE Pt(RInt(1))

\* C16: the final score of a row whose six sub-scores are computed is the
\* smaller of 1 and the weighted sum of the sub-scores plus elevator_weight
\* when has_elevator is there and true plus balcony_weight when has_balcony is
\* there and true.
C16_FinalIsCappedWeightedSum ==
    \A k \in 1..Len(scored) :
        (\A name \in SubScoreNames : scored[k].subs[name].k = "fin")
            => scored[k].out = ExpectedScore(analyzer.weights, scored[k].apartment,
                                             scored[k].subs)

C16_Witness ==
    /\ Len(scored) = 1
    /\ analyzer = ApartmentAnalyzer(ScoringWeights, ScoringPreferences)
    /\ scored[1].apartment.has_elevator = BoolV(TRUE)
    /\ scored[1].apartment.has_balcony = BoolV(FALSE)
    /\ scored[1].apartment.rooms = Pt(RInt(5))
    /\ scored[1].out = Pt(Rat(545, 1000))

Declining == {"price", "fee", "price_per_m2"}

\* The reference points of one of the three declining sub-scores.
MaxPreferred(name) ==
    CASE name = "price"        -> analyzer.preferences.max_preferred_price
      [] name = "fee"          -> analyzer.preferences.max_preferred_fee
      [] name = "price_per_m2" -> analyzer.preferences.max_preferred_price_per_m2

MinAcceptable(name) ==
    CASE name = "price"        -> analyzer.preferences.min_acceptable_price
      [] name = "fee"          -> analyzer.preferences.min_acceptable_fee
      [] name = "price_per_m2" -> analyzer.preferences.min_acceptable_price_per_m2

Clamp(q, lo, hi) == IF RLt(q, lo) THEN lo ELSE IF RLt(hi, q) THEN hi ELSE q

AtLeast(q, lo) == IF RLt(q, lo) THEN lo ELSE q

\* A call on a value that is there and at most max_preferred.
OnLinearPart(c) ==
    c.name \in Declining /\ c.value.k = "fin" /\ RLe(c.value.lo, RInt(MaxPreferred(c.name)))

\* C17: where max_preferred differs from min_acceptable, a price, fee or
\* price per m2 that is there and at most max_preferred gets
\* 1 - (value - min_acceptable) / (max_preferred - min_acceptable), clamped to
\* [0, 1]; with the default preferences a price of 4,000,000 gets 0 and a
\* price of 500,000 gets 1.
C17_LinearPart ==
    \A k \in 1..Len(scored) :
        LET c == scored[k]
        IN  /\ (OnLinearPart(c) /\ MaxPreferred(c.name) # MinAcceptable(c.name))
                  => c.out = Pt(Clamp(RSub(RInt(1),
                                           Rat(c.value.lo.n - MinAcceptable(c.name) * c.value.lo.d,
                                               (MaxPreferred(c.name) - MinAcceptable(c.name))
                                                  * c.value.lo.d)),
                                      RInt(0), RInt(1)))
            /\ (analyzer.preferences = ScoringPreferences /\ c.name = "price")
                  => /\ c.value = Pt(RInt(4000000)) => c.out = Pt(RInt(0))
                     /\ c.value = Pt(RInt(500000)) => c.out = Pt(RInt(1))

C17_Witness ==
    /\ Len(scored) = 2
    /\ analyzer.preferences = ScoringPreferences
    /\ scored[1].name = "price"
    /\ scored[1].value = Pt(RInt(4000000)) /\ scored[1].out = Pt(RInt(0))
    /\ scored[2].value = Pt(RInt(2000000)) /\ scored[2].out = Pt(Rat(2, 3))

\* C18: for each of price, fee and price per m2 and every preferences, of two
\* values a < b that are both at most max_preferred, a gets a sub-score and it
\* is at least the one b gets.
C18_LinearPartMonotone ==
    Len(scored) = 2 =>
        LET a == scored[1]
            b == scored[2]
        IN  (OnLinearPart(a) /\ OnLinearPart(b) /\ RLt(a.value.lo, b.value.lo))
                => (a.out.k = "fin" /\ b.out.k = "fin" /\ RLe(b.out.hi, a.out.lo))

\* C19: a value that is missing gets 0 from score_price and 0.5 from each of
\* the five other functions.
C19_MissingValue ==
    \A k \in 1..Len(scored) :
        isna(scored[k].value) =>
            scored[k].out = (IF scored[k].name = "price" THEN Pt(RInt(0)) ELSE Pt(Rat(1, 2)))

C19_Witness ==
    /\ Len(scored) = 2
    /\ scored[1].name = "price"
    /\ scored[1].value = Pt(RInt(500000)) /\ scored[1].out = Pt(RInt(1))
    /\ scored[2].value = NaN /\ scored[2].out = Pt(RInt(0))

\* C20: with 0 < min_preferred_rooms <= max_preferred_rooms, a rooms value
\* that is there gets 1 inside the band, value / min_preferred_rooms (at least
\* 0) below it, and 1 - 0.1 * (value - max_preferred_rooms), at least 0.1,
\* above it; with the band [2, 4], 5 rooms get 0.9.
C20_Rooms ==
    \A k \in 1..Len(scored) :
        LET c  == scored[k]
            lo == analyzer.preferences.min_preferred_rooms
            hi == analyzer.preferences.max_preferred_rooms
            v  == c.value.lo
        IN  (c.name = "rooms" /\ c.value.k = "fin" /\ RLt(RInt(0), lo) /\ RLe(lo, hi))
                => /\ (RLe(lo, v) /\ RLe(v, hi)) => c.out = Pt(RInt(1))
                   /\ RLt(v, lo) => c.out = Pt(AtLeast(RDiv(v, lo), RInt(0)))
                   /\ RLt(hi, v) =>
                        c.out = Pt(AtLeast(RSub(RInt(1), RMul(Rat(1, 10), RSub(v, hi))),
                                           Rat(1, 10)))
                   /\ (lo = RInt(2) /\ hi = RInt(4) /\ v = RInt(5)) => c.out = Pt(Rat(9, 10))

C20_Witness ==
    /\ Len(scored) = 2
    /\ analyzer.preferences = ScoringPreferences
    /\ scored[1].name = "rooms"
    /\ scored[1].value = Pt(RInt(5)) /\ scored[1].out = Pt(Rat(9, 10))
    /\ scored[2].value = Pt(RInt(1)) /\ scored[2].out = Pt(Rat(1, 2))

\* C21: with min_preferred_year <= preferred_year_threshold, a year that is
\* there gets 1 at or above the threshold, 0.1 below min_preferred_year, and
\* in between (year - min_preferred_year) / (threshold - min_preferred_year),
\* at least 0.1.
C21_YearBuilt ==
    \A k \in 1..Len(scored) :
        LET c  == scored[k]
            lo == analyzer.preferences.min_preferred_year
            th == analyzer.preferences.preferred_year_threshold
            y  == c.value.lo
        IN  (c.name = "year_built" /\ c.value.k = "fin" /\ lo <= th)
                => /\ RLe(RInt(th), y) => c.out = Pt(RInt(1))
                   /\ RLt(y, RInt(lo)) => c.out = Pt(Rat(1, 10))
                   /\ (RLe(RInt(lo), y) /\ RLt(y, RInt(th)))
                        => c.out = Pt(AtLeast(Rat(y.n - lo * y.d, (th - lo) * y.d), Rat(1, 10)))

C21_Witness ==
    /\ Len(scored) = 2
    /\ analyzer.preferences = ScoringPreferences
    /\ scored[1].name = "year_built"
    /\ scored[1].value = Pt(RInt(1975)) /\ scored[1].out = Pt(Rat(1, 2))
    /\ scored[2].value = Pt(RInt(1962)) /\ scored[2].out = Pt(Rat(1, 10))

\* A floor band is configured when neither bound is None.
BandConfigured(p) == p.preferred_min_floor # None /\ p.preferred_max_floor # None

\* C22: a floor that is there gets 0.2 when avoid_ground_floor is set and it
\* is at most 1; otherwise, when a band is configured (a bound may be 0), 1
\* inside the band, 0.6 below it and 0.7 above it; and 0.8 when no band is
\* configured.
C22_Floor ==
    \A k \in 1..Len(scored) :
        LET c == scored[k]
            p == analyzer.preferences
            f == c.value.lo
        IN  (c.name = "floor" /\ c.value.k = "fin")
                => c.out =
                     (IF p.avoid_ground_floor /\ RLe(f, RInt(1)) THEN Pt(Rat(2, 10))
                      ELSE IF ~BandConfigured(p) THEN Pt(Rat(8, 10))
                      ELSE IF RLt(f, RInt(p.preferred_min_floor.i)) THEN Pt(Rat(6, 10))
                      ELSE IF RLt(RInt(p.preferred_max_floor.i), f) THEN Pt(Rat(7, 10))
                      ELSE Pt(RInt(1)))

\* C29: with min_acceptable < max_preferred, a price, fee or price per m2
\* above max_preferred never gets more than one at or below max_preferred.
\* (Stated so that it is violated only by a sub-score that is surely higher.)
C29_NonIncreasingAcrossMaxPreferred ==
    Len(scored) = 2 =>
        LET a == scored[1]
            b == scored[2]
        IN  (OnLinearPart(a) /\ b.value.k = "fin"
             /\ RLt(RInt(MaxPreferred(a.name)), b.value.lo)
             /\ MinAcceptable(a.name) < MaxPreferred(a.name)
             /\ a.out.k = "fin" /\ b.out.k = "fin")
                => ~RLt(a.out.hi, b.out.lo)

----------------------------------------------------------------------------
(* Containment of rejections in the pipeline *)

\* seen_urls after the items of a sequence went through validate and dedup,
\* starting from the empty set.
RECURSIVE SeenAfter(_)
SeenAfter(items) ==
    IF items = <<>> THEN {}
    ELSE LET rest == SeenAfter(SubSeq(items, 1, Len(items) - 1))
             v    == ValidationPipeline_process_item(items[Len(items)])
         IN  IF v.outcome = "DropItem" THEN rest
             ELSE DuplicatesPipeline_process_item(rest, v.item).seen

\* The items of the calls before the k-th that were not rejected.
AcceptedBefore(k) ==
    LET prior == SelectSeq(SubSeq(calls, 1, k - 1), Accepted)
    IN  [i \in 1..Len(prior) |-> prior[i].item]

----------------------------------------------------------------------------
(* CSVExportPipeline *)

\* The spider is open at the k-th call: the last open_spider or close_spider
\* for it before that call is an open_spider.
IsOpen(spider, k) ==
    \E o \in 1..(k - 1) :
        /\ csv.log[o].op = "open_spider" /\ csv.log[o].spider = spider
        /\ \A c \in (o + 1)..(k - 1) :
              ~(csv.log[c].op \in {"open_spider", "close_spider"}
                /\ csv.log[c].spider = spider)

\* The number of rows under the headers of the files.
RowsWritten(disk) ==
    LET RECURSIVE Sum(_)
        Sum(n) == IF n = 0 THEN 0 ELSE Sum(n - 1) + (Len(disk[n].rows) - 1)
    IN  Sum(Len(disk))

\* A process_item call wrote exactly this one row, to a file of its spider.
WroteOneRow(call) ==
    \E id \in 1..Len(call.before) :
        /\ call.before[id].spider = call.spider
        /\ call.after = [call.before EXCEPT ![id].rows = Append(@, item_dict(call.item))]

\* A process_item call while the spider is open writes one row and returns the
\* item; after close_spider it writes nothing.
ProcessItemWrites ==
    \A k \in 1..Len(csv.log) :
        LET call == csv.log[k]
        IN  call.op = "process_item" =>
                /\ call.out = call.item
                /\ IsOpen(call.spider, k) => WroteOneRow(call)
                /\ ~IsOpen(call.spider, k) => call.after = call.before

\* After a close_spider(s), every file opened for s is closed.
ClosedAfterClose ==
    \A k \in 1..Len(csv.log) :
        LET call == csv.log[k]
        IN  call.op = "close_spider" =>
                \A id \in 1..Len(call.after) :
                    call.after[id].spider = call.spider => call.after[id].closed

\* C28: after close_spider(s) every file that was opened for s is closed and a
\* process_item for s writes no row; while s is open each process_item for s
\* writes exactly one row and returns the item unchanged.
C28_CloseSpiderClosesAll == ProcessItemWrites /\ ClosedAfterClose

----------------------------------------------------------------------------
(* analyze_apartments and export_results *)

AnalysisReturned == analysis.outcome = "returned"

\* The row of the input that the r-th row of the output was made from.
InputOf(r) == analysis.input[analysis.out[r].index]

\* The text of the value has no digit in it.
NoDigit(v) == \A k \in 1..Len(astype_str(v)) : astype_str(v)[k] \notin Digits

\* The cleaned row, with NaN in the numeric columns whose value is not numeric.
WithoutNonNumeric(row) ==
    [c \in Columns |->
        IF c \in NumericCols /\ NoDigit(row[c]) THEN NaN ELSE clean_row(row)[c]]

\* C23: scoring never fails; a value of a numeric column that is not numeric
\* is scored as a missing one (0 for the price, 0.5 for the fee), and the
\* score is the one of the row with that value missing and the rest as it is.
C23_NeverFails ==
    analysis.outcome # "" =>
        /\ AnalysisReturned
        /\ \A r \in 1..Len(analysis.out) :
              LET row  == analysis.out[r]
                  subs == sub_scores(analyzer, row.apartment, FALSE)
              IN  /\ NoDigit(InputOf(r).price) => subs.price = Pt(RInt(0))
                  /\ NoDigit(InputOf(r).fee) => subs.fee = Pt(Rat(5, 10))
                  /\ row.score = calculate_apartment_score(
                                     analyzer, WithoutNonNumeric(InputOf(r)), FALSE)

\* C24: the ranks in the order of the output are 1, 2, ..., N, and the score
\* does not increase from a rank to the next.
C24_Ranks ==
    AnalysisReturned =>
        /\ Len(analysis.out) = Len(analysis.input)
        /\ \A r \in 1..Len(analysis.out) : analysis.out[r].rank = r
        /\ \A r \in 1..(Len(analysis.out) - 1) :
              ~Below(analysis.out[r].score, analysis.out[r + 1].score)

C24_Witness ==
    /\ AnalysisReturned
    /\ Len(analysis.out) = 3
    /\ Below(analysis.out[2].score, analysis.out[1].score)
    /\ Below(analysis.out[3].score, analysis.out[2].score)
    /\ analysis.out[1].index = 3

\* C25: two different rows with the same score are in the output in the order
\* they have in the input.
C25_Stable ==
    AnalysisReturned =>
        \A r1, r2 \in 1..Len(analysis.out) :
            (r1 < r2 /\ analysis.out[r1].apartment # analysis.out[r2].apartment
                     /\ analysis.out[r1].score = analysis.out[r2].score
                     /\ analysis.out[r1].score.lo = analysis.out[r1].score.hi)
                => analysis.out[r1].index < analysis.out[r2].index

\* C30: the output has one row for each row of the input and no other, each
\* the cleaned row with the score computed from it, and the table handed in
\* is as it was.
C30_SameRecords ==
    /\ analysis.outcome # "" => analysis.df = analysis.input
    /\ AnalysisReturned =>
        /\ Len(analysis.out) = Len(analysis.input)
        /\ \A i \in 1..Len(analysis.input) :
              \E r \in 1..Len(analysis.out) : analysis.out[r].index = i
        /\ \A r \in 1..Len(analysis.out) :
              /\ analysis.out[r].apartment = clean_row(InputOf(r))
              /\ analysis.out[r].score =
                    calculate_apartment_score(analyzer, clean_row(InputOf(r)), FALSE)

C30_Witness ==
    /\ AnalysisReturned
    /\ Len(analysis.input) = 3
    /\ analysis.input[1] = analysis.input[3]
    /\ analysis.out[1].index = 2
    /\ clean_data(analysis.input) # analysis.input

\* The row a process_item call wrote, if it wrote one.
RowsOf(call) ==
    {call.after[id].rows[Len(call.after[id].rows)] :
        id \in {n \in 1..Len(call.after) : n <= Len(call.before)
                                           /\ call.after[n].rows # call.before[n].rows}}

\* C27: in the rows CSVExportPipeline.process_item writes and in the rows
\* export_results writes, a boolean is Yes or No and an absent value is the
\* empty text.
C27_ExportTokens ==
    /\ \A k \in 1..Len(csv.log) :
          \A row \in RowsOf(csv.log[k]) :
              \A f \in Fields :
                  LET value == Get(csv.log[k].item, f)
                  IN  /\ value = None => row[f] = <<>>
                      /\ value \in {BoolV(TRUE), BoolV(FALSE)} =>
                            row[f] = (IF value.b THEN Yes ELSE No)
    /\ analysis.exported =>
          \A r \in 1..Len(analysis.rows) :
              LET apartment == analysis.out[r].apartment
              IN  /\ \A c \in BoolCols :
                        analysis.rows[r][c] = (IF apartment[c].b THEN Yes ELSE No)
                  /\ \A c \in NumericCols :
                        isna(apartment[c]) => analysis.rows[r][c] = <<>>
                  /\ \A c \in TextCols :
                        apartment[c] = None => analysis.rows[r][c] = <<>>

====
